---- MODULE Spec2Model ----
\* Raw-device image carving (recovery/main.py), the integrity verifier
\* (recovery/verifier.py) and the run that orchestrates them, as a state machine.
\*
\* The medium is a finite byte sequence read in blocks of `size` bytes.  The
\* source reads 512-byte blocks; the model keeps every signature byte for byte
\* and scales the block down so that a medium of a few blocks is a few dozen
\* bytes long.  The block stays longer than every signature and than the
\* 12 bytes retained after a PNG end marker, as in the source.
EXTENDS Integers, Sequences, FiniteSets, TLC

\* ------------------------------------------------------------------ bounds
size == 16          \* block length in bytes (512 in the source, main.py:77)
MaxLead == 17       \* filler bytes in front of the first image: 0..MaxLead
MaxBody == 13       \* payload bytes between start signature and end marker
MaxTail == 2        \* filler bytes behind the last image
MaxBody2 == 2       \* payload bytes of the second image of a concatenation
MaxFaults == 2      \* environment faults that may be combined in one run
MaxCopied == 2      \* files an "Existing Images" run may copy
MaxSectors == 2100  \* blocks of the longest medium of the sector-level scan

\* --------------------------------------------------------- program constants
FallbackSectors == 1000000
SeedFileSize == 1000
ProgressEvery == 1000
ProgressCap == 95
ScanCompletePercent == 98
FinalPercent == 100
JpgEndLength == 2
PngEndLength == 12

\* ------------------------------------------------------------ byte helpers
Min(a, b) == IF a < b THEN a ELSE b
Max(a, b) == IF a > b THEN a ELSE b

SetMin(S) == CHOOSE x \in S : \A y \in S : x <= y

\* bytes.find(sig): the lowest 0-based index at which sig occurs in b, or -1.
Find(b, sig) ==
    LET C == {i \in 0..(Len(b) - Len(sig)) : SubSeq(b, i + 1, i + Len(sig)) = sig}
    IN  IF C = {} THEN -1 ELSE SetMin(C)

\* b[k:], k a 0-based index.
SliceFrom(b, k) == SubSeq(b, k + 1, Len(b))

\* b[:n]: the first n bytes, all of b when it is shorter.
SliceTo(b, n) == SubSeq(b, 1, Min(n, Len(b)))

\* ----------------------------------------------------------- signatures
jpg_signatures ==
    << <<255, 216, 255, 224, 0, 16, 74, 70>>,
       <<255, 216, 255, 225>>,
       <<255, 216, 255, 219>>,
       <<255, 216, 255, 224>>,
       <<255, 216, 255, 238>>,
       <<255, 216, 255, 192>>,
       <<255, 216, 255, 196>> >>

png_signature == <<137, 80, 78, 71, 13, 10, 26, 10>>

jpg_end_signature == <<255, 217>>

png_end_signature == <<73, 69, 78, 68, 174, 66, 96, 130>>

end_signature(t) == IF t = "jpg" THEN jpg_end_signature ELSE png_end_signature

\* Bytes of the block kept when the end marker is found at offset k.
\* the block is kept up to the last byte of the end signature
EndKeepMarkerOnly(t, k) == k + Len(end_signature(t))

EndKeep(t, k) == IF t = "jpg" THEN k + JpgEndLength ELSE k + PngEndLength

\* the signature that occurs at the lowest offset of the block wins
SearchStartEarliest(b) ==
    LET catalog == jpg_signatures \o <<png_signature>>
        hits == {k \in 1..Len(catalog) : Find(b, catalog[k]) >= 0}
        first == SetMin({Find(b, catalog[k]) : k \in hits})
    IN  IF hits = {}
        THEN [file_type |-> "none", found_pos |-> -1]
        ELSE [file_type |-> IF \E k \in hits : k <= Len(jpg_signatures)
                                               /\ Find(b, catalog[k]) = first
                            THEN "jpg" ELSE "png",
              found_pos |-> first]

\* The signature search of one block: the JPEG variants in list order, the
\* first one that occurs anywhere in the block wins; PNG only if none does.
SearchStart(b) ==
    LET hits == {k \in 1..Len(jpg_signatures) : Find(b, jpg_signatures[k]) >= 0}
    IN  IF hits # {}
        THEN [file_type |-> "jpg", found_pos |-> Find(b, jpg_signatures[SetMin(hits)])]
        ELSE IF Find(b, png_signature) >= 0
             THEN [file_type |-> "png", found_pos |-> Find(b, png_signature)]
             ELSE [file_type |-> "none", found_pos |-> -1]

\* ------------------------------------------------------------- progress
\* Python evaluates the percentages in IEEE-754 doubles and truncates.  For
\* the sector counts of this model the double result is the exact quotient's
\* floor, except at the pairs <<processed, total>> below, where p / t * 100
\* lands just under an integer and int() yields one less.
RoundedDownPercent ==
    { <<290, 1000>>, <<570, 1000>>, <<580, 1000>>,
      <<203, 700>>, <<399, 700>>, <<406, 700>> }

\* int((processed_sectors / total_sectors) * 100)
PercentOf(p, t) ==
    IF <<p, t>> \in RoundedDownPercent THEN (p * 100) \div t - 1 ELSE (p * 100) \div t

\* min(100, int((processed_sectors / total_sectors) * 100))
scan_progress(p, t) == Min(100, PercentOf(p, t))

\* int(scan_progress * scan_progress_weight), scan_progress_weight = 0.90
combined_progress(p, t) == (scan_progress(p, t) * 9) \div 10

\* the same without the weight and without the cap
current_progress_unweighted(prev, p, t) == Max(prev, scan_progress(p, t))

\* min(95, max(prev_progress, combined_progress)): the value the file loop may emit
current_progress(prev, p, t) == Min(ProgressCap, Max(prev, combined_progress(p, t)))

\* the same without the cap
periodic_progress_uncapped(p, t) == (p * 90) \div t

\* min(95, int((processed_sectors / total_sectors) * scan_progress_weight * 100))
periodic_progress(p, t) == Min(ProgressCap, (p * 90) \div t)

\* the estimate is never adjusted
AdjustedEstimateNever(fs, est) == est

\* The sector estimate after one more block of the current file.
AdjustedEstimate(fs, est) == IF 2 * fs > est THEN fs * 2 ELSE est

\* min(100, int((file_sectors / estimated_file_size) * 100))
file_progress(fs, est) == Min(100, (fs * 100) \div est)

\* total_sectors from the size the target reports (getsize may raise: known = FALSE)
TotalSectors(known, drive_size) ==
    IF known /\ drive_size \div size > 0 THEN drive_size \div size ELSE FallbackSectors

\* ------------------------------------------------------------ input media
Fill(n, v) == [i \in 1..n |-> v]

JpgHead(k, b) == jpg_signatures[k] \o Fill(b, 7)
JpgImage(k, b) == JpgHead(k, b) \o jpg_end_signature
PngHead(b) == png_signature \o Fill(b, 7)
PngImage(b) == PngHead(b) \o <<0, 0, 0, 0>> \o png_end_signature

SingleImages ==
    UNION { {JpgImage(1, b), JpgImage(2, b), JpgHead(2, b), PngImage(b), PngHead(b)}
            : b \in 0..MaxBody }

\* one image, complete or cut off, anywhere in the first blocks
SingleStreams ==
    { Fill(a, 0) \o img \o Fill(e, 0) :
        a \in 0..MaxLead, img \in SingleImages, e \in 0..MaxTail }

\* a complete JPEG and a complete PNG, concatenated in either order
PairStreams ==
    UNION { { Fill(a, 0) \o JpgImage(2, b) \o PngImage(d) \o Fill(e, 0),
              Fill(a, 0) \o PngImage(b) \o JpgImage(2, d) \o Fill(e, 0) } :
            a \in 0..MaxLead, b \in 0..MaxBody, d \in 0..MaxBody2, e \in 0..MaxTail }

\* two complete JPEGs, the second one in a later block than the first one's end
TwoJpegStreams ==
    { JpgImage(2, size) \o Fill(size + e, 0) \o JpgImage(2, 1) : e \in 0..MaxTail }

\* two start signatures in one block, the one later in the catalog in front
PriorityStreams ==
    { PngHead(0) \o JpgHead(1, 2),
      PngHead(0) \o JpgHead(2, size),
      jpg_signatures[4] \o jpg_signatures[1] \o Fill(size, 7),
      jpg_signatures[7] \o jpg_signatures[3] \o Fill(2, 7) \o jpg_end_signature }

\* media without any image
PlainStreams == { Fill(n, 0) : n \in {0, 1, size, 2 * size + 1} }

\* the media on which the environment's faults are explored
FaultStreams ==
    { JpgImage(2, size) \o Fill(2 * size, 0),
      JpgImage(2, size) \o Fill(size, 0) \o PngHead(size),
      Fill(3, 0) \o PngImage(size) \o Fill(size, 0) \o JpgImage(1, size),
      Fill(3, 0) \o PngHead(size),
      Fill(size, 0) }

Streams ==
    SingleStreams \cup PairStreams \cup TwoJpegStreams \cup PriorityStreams
        \cup PlainStreams \cup FaultStreams

FaultKinds ==
    {"read", "write", "stop", "delete", "move", "mkdir", "press_stop", "press_start"}
FaultSets == {F \in SUBSET FaultKinds : Cardinality(F) <= MaxFaults}

\* ------------------------------------------------------------------ state
VARIABLES
    stream,             \* the medium behind drive_path: its bytes
    target,             \* "ok" | "missing" | "denied": what opening drive_path meets
    size_known,         \* whether os.path.getsize(drive_path) answers
    scan_type,          \* "raw" | "existing" ("Existing Images")
    faults,             \* the faults the environment may inject in this run
    pc,                 \* position of the worker in run_recovery / raw_recovery
    is_running,         \* RecoveryWorker._is_running
    pos,                \* offset of fileD in the medium
    reads,              \* fileD.read calls made so far
    byte,               \* the block last read
    drec,               \* a file is in progress
    offs,
    processed_sectors,
    file_sectors,
    estimated_file_size,
    total_sectors,
    prev_progress,
    file_type,
    file_path,
    rcvd,
    recovered_files,    \* the list raw_recovery accumulates
    fileD_open,         \* the target handle is open
    fileN_open,         \* an output file is open
    disk,               \* output directory: path -> content of every file in it
    all_files,          \* run_recovery's list
    vidx,               \* verify_files: index of the record at hand
    corrupted_count,
    progress,           \* progress_updated values emitted, in order
    errors,             \* error_occurred events emitted, in order
    completed,          \* recovery_complete payloads emitted, in order
    start_button,       \* MainWindow.start_button is enabled
    stop_button,        \* MainWindow.stop_button is enabled
    inbox,              \* worker signals queued for the window's thread
    kill_pending,       \* terminate() was called on the scanning thread
    later_thread,       \* the thread of a second Start: "none" | "running" | ended
    verify_pass,        \* which call of verify_files on the list is at hand
    first_pass,         \* the records as the first call of verify_files left them
    reads_at_stop,      \* fileD.read calls of the run made when the flag went down, -1: it is up
    runs                \* calls of run_recovery on the worker so far

vars == << stream, target, size_known, scan_type, faults, pc, is_running, pos, reads,
           byte, drec, offs, processed_sectors, file_sectors, estimated_file_size,
           total_sectors, prev_progress, file_type, file_path, rcvd, recovered_files,
           fileD_open, fileN_open, disk, all_files, vidx, corrupted_count,
           progress, errors, completed, start_button, stop_button, inbox,
           kill_pending, later_thread, verify_pass, first_pass, reads_at_stop, runs >>

inputVars == << stream, target, size_known, scan_type, faults >>
scanVars == << pos, reads, byte, drec, offs, processed_sectors, file_sectors,
               estimated_file_size, total_sectors, prev_progress, file_type,
               file_path, rcvd, recovered_files, fileD_open, fileN_open >>
verifyVars == << vidx, corrupted_count >>
windowVars == << start_button, stop_button, kill_pending, later_thread >>
harnessVars == << verify_pass, first_pass >>
historyVars == << reads_at_stop, runs >>

NoPath == [dir |-> "none", q |-> <<>>, n |-> 0, ext |-> "none"]

\* the same name for every file of a type
RecoveredPathNoCounter(n, t) == [dir |-> "out", q |-> <<>>, n |-> 0, ext |-> t]

\* os.path.join(output_dir, f"recovered_{rcvd}.{file_type}")
RecoveredPath(n, t) == [dir |-> "out", q |-> <<>>, n |-> n, ext |-> t]

\* os.path.join(corrupted_dir, f"corrupted_{count}_{basename(file_path)}"):
\* q lists the counts in front of the carved name, the latest first.
CorruptedPath(count, path) ==
    [dir |-> "corrupted", q |-> <<count>> \o path.q, n |-> path.n, ext |-> path.ext]

NoHash == <<-1>>

\* open(path, "wb"): the file exists and is empty
Create(d, path) == [p \in DOMAIN d \cup {path} |-> IF p = path THEN <<>> ELSE d[p]]

\* fileN.write(data)
WriteTo(d, path, data) == [d EXCEPT ![path] = @ \o data]

\* os.remove / the source of shutil.move
Remove(d, path) == [p \in DOMAIN d \ {path} |-> d[p]]

\* fileD.read(size) at offset o
ReadBlock(o) == SubSeq(stream, o + 1, Min(o + size, Len(stream)))

\* whether a call of the given kind may raise in this run
MayFail(kind) == IF kind \in faults THEN {TRUE, FALSE} ELSE {FALSE}

Init ==
    /\ stream \in Streams
    /\ faults \in (IF stream \in FaultStreams THEN FaultSets ELSE {{}})
    /\ target \in (IF stream \in FaultStreams THEN {"ok", "missing", "denied"} ELSE {"ok"})
    /\ target # "ok" => faults = {}
    /\ size_known \in (IF stream \in FaultStreams \cup PlainStreams
                       THEN BOOLEAN ELSE {TRUE})
    /\ scan_type \in (IF stream \in FaultStreams THEN {"raw", "existing"} ELSE {"raw"})
    /\ scan_type = "existing" => target = "ok" /\ faults \subseteq {"stop"}
    /\ pc = "idle"
    /\ is_running = TRUE
    /\ start_button = TRUE
    /\ stop_button = FALSE
    /\ inbox = <<>>
    /\ kill_pending = FALSE
    /\ later_thread = "none"
    /\ verify_pass = 1
    /\ first_pass = <<>>
    /\ reads_at_stop = -1
    /\ runs = 0
    /\ pos = 0
    /\ reads = 0
    /\ byte = <<>>
    /\ drec = FALSE
    /\ offs = 0
    /\ processed_sectors = 0
    /\ file_sectors = 0
    /\ estimated_file_size = SeedFileSize
    /\ total_sectors = FallbackSectors
    /\ prev_progress = 0
    /\ file_type = "none"
    /\ file_path = NoPath
    /\ rcvd = 0
    /\ recovered_files = <<>>
    /\ fileD_open = FALSE
    /\ fileN_open = FALSE
    /\ disk = << >>
    /\ all_files = <<>>
    /\ vidx = 0
    /\ corrupted_count = 0
    /\ progress = <<>>
    /\ errors = <<>>
    /\ completed = <<>>

\* ------------------------------------------------- run_recovery, first part
\* run_recovery up to the choice of the scan: progress_updated.emit(0).
run_recovery_start ==
    /\ pc = "start"
    /\ progress' = Append(progress, 0)
    /\ pc' = IF scan_type = "existing" THEN "existing" ELSE "raw_open"
    /\ UNCHANGED << inputVars, windowVars, harnessVars, historyVars,
                    scanVars, verifyVars, is_running, disk, all_files,
                    errors, inbox, completed >>

\* a record without a status
CopiedRecordNoStatus(i) ==
    [path |-> [dir |-> "out", q |-> <<>>, n |-> i, ext |-> "jpg"], size |-> i,
     type |-> "jpg", status |-> "", hash |-> NoHash]

\* ExistingImageExtractor.extract_images: the records of the files it copied.
CopiedRecord(i) ==
    [path |-> [dir |-> "out", q |-> <<>>, n |-> i, ext |-> "jpg"], size |-> i,
     type |-> "jpg", status |-> "Copied", hash |-> NoHash]

extract_images ==
    /\ pc = "existing"
    /\ \E k \in 0..MaxCopied : all_files' = [i \in 1..k |-> CopiedRecord(i)]
    /\ pc' = "report"
    /\ UNCHANGED << inputVars, windowVars, harnessVars, historyVars,
                    scanVars, verifyVars, is_running, disk, progress,
                    errors, inbox, completed >>

\* ----------------------------------------------------------- raw_recovery
\* The except clause of raw_recovery: both with-blocks have closed their
\* files, one error event is emitted and the empty list is returned.
RaisedInScan ==
    /\ errors' = Append(errors, "raw_recovery")
    /\ inbox' = Append(inbox, "error")
    /\ all_files' = <<>>
    /\ fileD_open' = FALSE
    /\ fileN_open' = FALSE
    /\ pc' = "verify"

\* only a missing path is noticed
OpenFailsIfMissing == target = "missing"

\* os.path.exists(drive_path) is false, or open(drive_path, "rb") raises
OpenFails == target # "ok"

\* From the start of raw_recovery to the first read.
raw_recovery_open ==
    /\ pc = "raw_open"
    /\ \E fail \in MayFail("read") :
        IF OpenFails \/ fail
        THEN /\ RaisedInScan
             /\ reads' = IF OpenFails THEN reads ELSE reads + 1
             /\ UNCHANGED << pos, byte, total_sectors >>
        ELSE /\ fileD_open' = TRUE
             /\ total_sectors' = TotalSectors(size_known, Len(stream))
             /\ byte' = ReadBlock(pos)
             /\ pos' = pos + Len(ReadBlock(pos))
             /\ reads' = reads + 1
             /\ pc' = "outer_test"
             /\ UNCHANGED << errors, inbox, all_files, fileN_open >>
    /\ UNCHANGED << inputVars, windowVars, harnessVars, historyVars,
                    verifyVars, is_running, drec, offs, processed_sectors,
                    file_sectors, estimated_file_size, prev_progress, file_type,
                    file_path, rcvd, recovered_files, disk, progress, completed >>

\* while byte and self._is_running
raw_recovery_outer_test ==
    /\ pc = "outer_test"
    /\ pc' = IF byte # <<>> /\ is_running THEN "outer_body" ELSE "scan_end"
    /\ UNCHANGED << inputVars, windowVars, harnessVars, historyVars,
                    scanVars, verifyVars, is_running, disk, all_files,
                    progress, errors, inbox, completed >>

\* The signature search of the block and, on a hit, the opening of the output
\* file and the write of the block from the signature on.
raw_recovery_outer_body ==
    /\ pc = "outer_body"
    /\ LET hit == SearchStart(byte)
           path == RecoveredPath(rcvd, hit.file_type)
       IN  IF hit.found_pos < 0
           THEN /\ pc' = "next_read"
                /\ UNCHANGED << drec, file_type, file_path, estimated_file_size,
                                file_sectors, disk, fileN_open, fileD_open, errors, inbox,
                                all_files >>
           ELSE \E fail \in MayFail("write") :
                /\ drec' = TRUE
                /\ file_type' = hit.file_type
                /\ file_path' = path
                /\ estimated_file_size' = SeedFileSize
                /\ file_sectors' = 0
                /\ IF fail
                   THEN /\ disk' = Create(disk, path)
                        /\ RaisedInScan
                   ELSE /\ disk' = WriteTo(Create(disk, path), path,
                                           SliceFrom(byte, hit.found_pos))
                        /\ fileN_open' = TRUE
                        /\ pc' = "inner_test"
                        /\ UNCHANGED << fileD_open, errors, inbox, all_files >>
    /\ UNCHANGED << inputVars, windowVars, harnessVars, historyVars,
                    verifyVars, is_running, pos, reads, byte, offs,
                    processed_sectors, total_sectors, prev_progress, rcvd,
                    recovered_files, progress, completed >>

\* the file loop does not look at the flag
FileLoopIgnoresFlag(d, flag) == d

\* the condition of the file loop: drec and self._is_running
FileLoopGoesOn(d, flag) == d /\ flag

\* while drec and self._is_running
raw_recovery_inner_test ==
    /\ pc = "inner_test"
    /\ pc' = IF FileLoopGoesOn(drec, is_running) THEN "inner_body" ELSE "close"
    /\ UNCHANGED << inputVars, windowVars, harnessVars, historyVars,
                    scanVars, verifyVars, is_running, disk, all_files,
                    progress, errors, inbox, completed >>

\* One pass of the file loop: read the next block, recompute and emit the
\* progress, then look for the end marker in the block and write.
raw_recovery_inner_body ==
    /\ pc = "inner_body"
    /\ \E rfail \in MayFail("read"), wfail \in MayFail("write") :
        LET blk == ReadBlock(pos)
            est == AdjustedEstimate(file_sectors + 1, estimated_file_size)
            cur == current_progress(prev_progress, processed_sectors + 1, total_sectors)
            bfind == Find(blk, end_signature(file_type))
        IN  /\ reads' = reads + 1
            /\ IF rfail
               THEN /\ RaisedInScan
                    /\ UNCHANGED << pos, byte, offs, processed_sectors, file_sectors,
                                    estimated_file_size, prev_progress, progress,
                                    drec, disk >>
               ELSE /\ byte' = blk
                    /\ pos' = pos + Len(blk)
                    /\ offs' = offs + 1
                    /\ processed_sectors' = processed_sectors + 1
                    /\ file_sectors' = file_sectors + 1
                    /\ estimated_file_size' = est
                    /\ prev_progress' = cur
                    /\ progress' = IF cur > prev_progress
                                   THEN Append(progress, cur) ELSE progress
                    /\ IF blk = <<>>
                       THEN /\ wfail = FALSE
                            /\ drec' = FALSE
                            /\ pc' = "close"
                            /\ UNCHANGED << disk, fileD_open, fileN_open, errors, inbox,
                                            all_files >>
                       ELSE IF wfail
                            THEN /\ RaisedInScan
                                 /\ UNCHANGED << drec, disk >>
                            ELSE /\ drec' = (bfind < 0)
                                 /\ disk' = WriteTo(disk, file_path,
                                        IF bfind >= 0
                                        THEN SliceTo(blk, EndKeep(file_type, bfind))
                                        ELSE blk)
                                 /\ pc' = "inner_test"
                                 /\ UNCHANGED << fileD_open, fileN_open, errors, inbox,
                                                 all_files >>
    /\ UNCHANGED << inputVars, windowVars, harnessVars, historyVars,
                    verifyVars, is_running, total_sectors, file_type,
                    file_path, rcvd, recovered_files, completed >>

\* a record is appended only for a file that got its end marker
WithRecordIfEnded(list, path, content, t) ==
    IF Find(content, end_signature(t)) >= 0
    THEN Append(list, [path |-> path, size |-> Len(content), type |-> t,
                       status |-> "Recovered", hash |-> NoHash])
    ELSE list

\* recovered_files.append({...}) for the file that was closed
WithRecord(list, path, content, t) ==
    Append(list, [path |-> path, size |-> Len(content), type |-> t,
                  status |-> "Recovered", hash |-> NoHash])

\* After the file loop: the output file is closed and its record appended.
raw_recovery_close ==
    /\ pc = "close"
    /\ fileN_open' = FALSE
    /\ rcvd' = rcvd + 1
    /\ recovered_files' = WithRecord(recovered_files, file_path, disk[file_path], file_type)
    /\ pc' = "next_read"
    /\ UNCHANGED << inputVars, windowVars, harnessVars, historyVars,
                    verifyVars, is_running, pos, reads, byte, drec, offs,
                    processed_sectors, file_sectors, estimated_file_size,
                    total_sectors, prev_progress, file_type, file_path, fileD_open,
                    disk, all_files, progress, errors, inbox, completed >>

\* The read that ends a pass of the scan loop, and the periodic progress.
raw_recovery_next_read ==
    /\ pc = "next_read"
    /\ \E fail \in MayFail("read") :
        LET blk == ReadBlock(pos)
            p == processed_sectors + 1
            cur == periodic_progress(p, total_sectors)
            emit == p % ProgressEvery = 0 /\ cur > prev_progress
        IN  /\ reads' = reads + 1
            /\ IF fail
               THEN /\ RaisedInScan
                    /\ UNCHANGED << pos, byte, offs, processed_sectors, prev_progress,
                                    progress >>
               ELSE /\ byte' = blk
                    /\ pos' = pos + Len(blk)
                    /\ offs' = offs + 1
                    /\ processed_sectors' = p
                    /\ prev_progress' = IF emit THEN cur ELSE prev_progress
                    /\ progress' = IF emit THEN Append(progress, cur) ELSE progress
                    /\ pc' = "outer_test"
                    /\ UNCHANGED << fileD_open, fileN_open, errors, inbox, all_files >>
    /\ UNCHANGED << inputVars, windowVars, harnessVars, historyVars,
                    verifyVars, is_running, drec, file_sectors,
                    estimated_file_size, total_sectors, file_type, file_path, rcvd,
                    recovered_files, disk, completed >>

\* After the scan loop: the target is closed, 98 is emitted and the list returned.
raw_recovery_end ==
    /\ pc = "scan_end"
    /\ fileD_open' = FALSE
    /\ progress' = Append(progress, ScanCompletePercent)
    /\ all_files' = recovered_files
    /\ pc' = "verify"
    /\ UNCHANGED << inputVars, windowVars, harnessVars, historyVars,
                    verifyVars, is_running, pos, reads, byte, drec, offs,
                    processed_sectors, file_sectors, estimated_file_size,
                    total_sectors, prev_progress, file_type, file_path, rcvd,
                    recovered_files, fileN_open, disk, errors, inbox, completed >>

\* RecoveryWorker.stop
stop ==
    /\ "stop" \in faults
    /\ pc \notin {"idle", "done", "terminated"}
    /\ is_running
    /\ is_running' = FALSE
    /\ reads_at_stop' = reads
    /\ UNCHANGED << inputVars, windowVars, harnessVars, runs,
                    scanVars, verifyVars, pc, disk, all_files, progress,
                    errors, inbox, completed >>

\* ------------------------------------------------------------ verify_files
StartsWith(b, sig) == Len(b) >= Len(sig) /\ SubSeq(b, 1, Len(sig)) = sig

\* _verify_image_integrity.  The decoder is a library outside the repository;
\* it is modelled by the structure a decodable file of the type has: the
\* type's magic bytes in front and the type's end marker somewhere behind
\* them.  An empty file is invalid before the decoder is asked.
verify_image_integrity(content, t) ==
    /\ Len(content) # 0
    /\ IF t = "jpg"
       THEN /\ StartsWith(content, <<255, 216, 255>>)
            /\ Find(content, jpg_end_signature) >= 0
       ELSE /\ StartsWith(content, png_signature)
            /\ Find(content, png_end_signature) >= 0

\* _calculate_file_hash: the digest is modelled by the content it is taken of.
calculate_file_hash(content) == content

\* verify_files up to the loop: the quarantine directory is created, or the
\* except clause returns the list as it was passed in.
verify_files_begin ==
    /\ pc = "verify"
    /\ corrupted_count' = 0
    /\ \E fail \in MayFail("mkdir") :
        IF fail
        THEN /\ pc' = "report"
             /\ vidx' = vidx
        ELSE /\ pc' = "verify_loop"
             /\ vidx' = 1
    /\ UNCHANGED << inputVars, windowVars, harnessVars, historyVars,
                    scanVars, is_running, disk, all_files, progress,
                    errors, inbox, completed >>

\* the status is set, the path is left as it was
MovedRecordStalePath(rec, dest) == [rec EXCEPT !.status = "Corrupted"]

\* file_info['path'] = corrupted_path; file_info['status'] = 'Corrupted'
MovedRecord(rec, dest) == [rec EXCEPT !.status = "Corrupted", !.path = dest]

\* a failed move is reported like a move
NotMovedRecordAsMoved(rec) == [rec EXCEPT !.status = "Corrupted"]

\* the except clause of the move: file_info['status'] = 'Corrupted (not moved)'
NotMovedRecord(rec) == [rec EXCEPT !.status = "Corrupted (not moved)"]

\* Whether shutil.move raises.  In a second call of verify_files, with nothing
\* changed in between, the file that could not be moved still cannot be, and
\* the quarantine directory that took a file takes it again.
MoveOutcomes(rec) ==
    IF verify_pass = 1 THEN MayFail("move") ELSE {rec.status = "Corrupted (not moved)"}

\* One pass of the loop over file_list; the records are updated in place.
verify_files_step ==
    /\ pc = "verify_loop"
    /\ vidx <= Len(all_files)
    /\ LET rec == all_files[vidx]
       IN  IF rec.path \notin DOMAIN disk
           THEN /\ all_files' = [all_files EXCEPT ![vidx].status = "Missing"]
                /\ UNCHANGED << disk, corrupted_count >>
           ELSE LET content == disk[rec.path]
                    hashed == [rec EXCEPT !.hash = calculate_file_hash(content)]
                    dest == CorruptedPath(corrupted_count + 1, rec.path)
                IN  IF verify_image_integrity(content, rec.type)
                    THEN /\ all_files' = [all_files EXCEPT
                                            ![vidx] = [hashed EXCEPT !.status = "OK"]]
                         /\ UNCHANGED << disk, corrupted_count >>
                    ELSE \E fail \in MoveOutcomes(rec) :
                         /\ corrupted_count' = corrupted_count + 1
                         /\ IF fail
                            THEN /\ all_files' = [all_files EXCEPT ![vidx] =
                                                    NotMovedRecord(hashed)]
                                 /\ UNCHANGED disk
                            ELSE /\ all_files' = [all_files EXCEPT ![vidx] =
                                                    MovedRecord(hashed, dest)]
                                 /\ disk' = WriteTo(Create(Remove(disk, rec.path), dest),
                                                    dest, content)
    /\ vidx' = vidx + 1
    /\ pc' = "verify_loop"
    /\ UNCHANGED << inputVars, windowVars, harnessVars, historyVars,
                    scanVars, is_running, progress, errors, inbox, completed >>

\* The loop is exhausted: verified_files is returned.
verify_files_end ==
    /\ pc = "verify_loop"
    /\ vidx > Len(all_files)
    /\ pc' = "report"
    /\ UNCHANGED << inputVars, windowVars, harnessVars, historyVars,
                    scanVars, verifyVars, is_running, disk, all_files,
                    progress, errors, inbox, completed >>

\* Something outside the program deletes a carved file before it is verified.
external_delete ==
    /\ "delete" \in faults
    /\ pc = "verify"
    /\ \E path \in DOMAIN disk : disk' = Remove(disk, path)
    /\ UNCHANGED << inputVars, windowVars, harnessVars, historyVars,
                    scanVars, verifyVars, pc, is_running, all_files,
                    progress, errors, inbox, completed >>

\* ------------------------------------------------ run_recovery, second part
\* ReportGenerator.generate_report: it handles its own failures.
generate_report ==
    /\ pc = "report"
    /\ pc' = "finish"
    /\ UNCHANGED << inputVars, windowVars, harnessVars, historyVars,
                    scanVars, verifyVars, is_running, disk, all_files,
                    progress, errors, inbox, completed >>

\* the result is emitted whatever the flag
EmitsCompletionAlways(flag) == TRUE

\* if self._is_running: self.recovery_complete.emit(...)
EmitsCompletion(flag) == flag

\* progress_updated.emit(100), then recovery_complete if the flag is still set.
run_recovery_finish ==
    /\ pc = "finish"
    /\ progress' = Append(progress, FinalPercent)
    /\ completed' = IF EmitsCompletion(is_running)
                    THEN Append(completed, all_files) ELSE completed
    /\ inbox' = IF EmitsCompletion(is_running) THEN Append(inbox, "complete") ELSE inbox
    /\ pc' = "done"
    /\ UNCHANGED << inputVars, windowVars, harnessVars, historyVars, scanVars,
                    verifyVars, is_running, disk, all_files, errors >>

\* ------------------------------------------------------------- MainWindow
\* The first RecoveryThread is inside run_recovery.
ThreadExecuting == pc \notin {"idle", "done", "terminated"}

\* recovery_thread.isRunning(): recovery_thread is the thread started last
isRunning == IF later_thread = "none" THEN ThreadExecuting ELSE later_thread = "running"

\* run_recovery is entered anew on the same worker: the locals of the call
\* and what is observed of the run start afresh; the worker's flag and the
\* output directory are what the runs before left.
NewRun ==
    /\ pc' = "start"
    /\ runs' = runs + 1
    /\ reads_at_stop' = IF is_running THEN -1 ELSE 0
    /\ pos' = 0
    /\ reads' = 0
    /\ byte' = <<>>
    /\ drec' = FALSE
    /\ offs' = 0
    /\ processed_sectors' = 0
    /\ file_sectors' = 0
    /\ estimated_file_size' = SeedFileSize
    /\ total_sectors' = FallbackSectors
    /\ prev_progress' = 0
    /\ file_type' = "none"
    /\ file_path' = NoPath
    /\ rcvd' = 0
    /\ recovered_files' = <<>>
    /\ fileD_open' = FALSE
    /\ fileN_open' = FALSE
    /\ all_files' = <<>>
    /\ vidx' = 0
    /\ corrupted_count' = 0
    /\ progress' = <<>>
    /\ errors' = <<>>
    /\ completed' = <<>>
    /\ kill_pending' = FALSE
    /\ UNCHANGED << is_running, disk, later_thread >>

\* the runs of run_recovery that are followed step by step
MaxRuns == 2

\* MainWindow.start_scan, the slot of the Start button: a new RecoveryThread
\* is created and started.  A thread started after the one before it has
\* ended is followed step by step like the first; of a thread started while
\* the one before it is still inside run_recovery only its end is kept.
start_scan ==
    /\ start_button
    /\ \/ pc = "idle"
       \/ "press_start" \in faults /\ later_thread = "none"
                                   /\ (ThreadExecuting \/ runs < MaxRuns)
    /\ start_button' = FALSE
    /\ stop_button' = TRUE
    /\ IF ThreadExecuting
       THEN /\ later_thread' = "running"
            /\ UNCHANGED << historyVars, scanVars, verifyVars, pc, is_running, disk,
                            all_files, progress, errors, completed, kill_pending >>
       ELSE NewRun
    /\ UNCHANGED << inputVars, harnessVars, inbox >>

\* A click on the Stop button runs its two slots in the order they were
\* connected: MainWindow.stop_scan, which calls RecoveryThread.stop (terminate()
\* on the thread, without wait()), then RecoveryWorker.stop.
stop_clicked ==
    /\ stop_button
    /\ "press_stop" \in faults
    /\ IF isRunning
       THEN /\ start_button' = TRUE
            /\ stop_button' = FALSE
            /\ IF later_thread = "none"
               THEN kill_pending' = TRUE /\ later_thread' = later_thread
               ELSE kill_pending' = kill_pending /\ later_thread' = "terminated"
       ELSE UNCHANGED windowVars
    /\ is_running' = FALSE
    /\ reads_at_stop' = IF is_running THEN reads ELSE reads_at_stop
    /\ UNCHANGED << inputVars, harnessVars, runs, scanVars, verifyVars, pc, disk,
                    all_files, progress, errors, inbox, completed >>

\* terminate() takes effect: the thread stops wherever it is; no with-block
\* and no except clause runs, so what it held open stays open.
thread_terminated ==
    /\ kill_pending
    /\ ThreadExecuting
    /\ pc' = "terminated"
    /\ kill_pending' = FALSE
    /\ UNCHANGED << inputVars, harnessVars, historyVars, scanVars, verifyVars, is_running, disk,
                    all_files, progress, errors, inbox, completed, start_button,
                    stop_button, later_thread >>

\* The thread of the second Start returns from run_recovery.
later_thread_finish ==
    /\ later_thread = "running"
    /\ later_thread' = "finished"
    /\ inbox' = IF is_running THEN Append(inbox, "complete") ELSE inbox
    /\ UNCHANGED << inputVars, harnessVars, historyVars, scanVars, verifyVars, pc, is_running, disk,
                    all_files, progress, errors, completed, start_button, stop_button,
                    kill_pending >>

\* MainWindow.on_recovery_complete, run in the window's thread
on_recovery_complete ==
    /\ inbox # <<>>
    /\ Head(inbox) = "complete"
    /\ inbox' = Tail(inbox)
    /\ start_button' = TRUE
    /\ stop_button' = FALSE
    /\ UNCHANGED << inputVars, harnessVars, historyVars, scanVars, verifyVars, pc, is_running, disk,
                    all_files, progress, errors, completed, kill_pending, later_thread >>

\* MainWindow.on_recovery_error, run in the window's thread
on_recovery_error ==
    /\ inbox # <<>>
    /\ Head(inbox) = "error"
    /\ inbox' = Tail(inbox)
    /\ start_button' = TRUE
    /\ stop_button' = FALSE
    /\ UNCHANGED << inputVars, harnessVars, historyVars, scanVars, verifyVars, pc, is_running, disk,
                    all_files, progress, errors, completed, kill_pending, later_thread >>

Next ==
    \/ start_scan
    \/ stop_clicked
    \/ thread_terminated
    \/ later_thread_finish
    \/ on_recovery_complete
    \/ on_recovery_error
    \/ run_recovery_start
    \/ extract_images
    \/ raw_recovery_open
    \/ raw_recovery_outer_test
    \/ raw_recovery_outer_body
    \/ raw_recovery_inner_test
    \/ raw_recovery_inner_body
    \/ raw_recovery_close
    \/ raw_recovery_next_read
    \/ raw_recovery_end
    \/ stop
    \/ verify_files_begin
    \/ verify_files_step
    \/ verify_files_end
    \/ external_delete
    \/ generate_report
    \/ run_recovery_finish

Spec == Init /\ [][Next]_vars

\* ------------------------------------------- verify_files, called twice
\* verify_files on its own: it is called on a list of records of carved
\* files, some of them present in the output directory, and then a second
\* time on the list the first call returned.
MaxRecords == 2

\* what a carved file may hold
VerifyContents == {<<>>, JpgImage(2, 1), JpgHead(2, 1), PngImage(0), PngHead(0)}

InitVerify ==
    /\ stream = <<>>
    /\ faults \in SUBSET {"move"}
    /\ target = "ok"
    /\ size_known = TRUE
    /\ scan_type = "raw"
    /\ pc = "verify"
    /\ is_running = TRUE
    /\ start_button = FALSE
    /\ stop_button = TRUE
    /\ inbox = <<>>
    /\ kill_pending = FALSE
    /\ later_thread = "none"
    /\ verify_pass = 1
    /\ first_pass = <<>>
    /\ reads_at_stop = -1
    /\ runs = 1
    /\ pos = 0
    /\ reads = 0
    /\ byte = <<>>
    /\ drec = FALSE
    /\ offs = 0
    /\ processed_sectors = 0
    /\ file_sectors = 0
    /\ estimated_file_size = SeedFileSize
    /\ total_sectors = FallbackSectors
    /\ prev_progress = 0
    /\ file_type = "none"
    /\ file_path = NoPath
    /\ rcvd = 0
    /\ recovered_files = <<>>
    /\ fileD_open = FALSE
    /\ fileN_open = FALSE
    /\ \E n \in 0..MaxRecords :
        \E types \in [1..n -> {"jpg", "png"}], contents \in [1..n -> VerifyContents],
           present \in SUBSET (1..n) :
            /\ all_files = [i \in 1..n |->
                    [path |-> RecoveredPath(i - 1, types[i]), size |-> Len(contents[i]),
                     type |-> types[i], status |-> "Recovered", hash |-> NoHash]]
            /\ disk = [p \in {RecoveredPath(i - 1, types[i]) : i \in present} |->
                        contents[CHOOSE i \in present : RecoveredPath(i - 1, types[i]) = p]]
    /\ vidx = 0
    /\ corrupted_count = 0
    /\ progress = <<>>
    /\ errors = <<>>
    /\ completed = <<>>

\* the list a first call returned is passed to a second call
verify_again ==
    /\ pc = "report"
    /\ verify_pass = 1
    /\ first_pass' = all_files
    /\ verify_pass' = 2
    /\ pc' = "verify"
    /\ UNCHANGED << inputVars, windowVars, historyVars, scanVars, verifyVars,
                    is_running, disk, all_files, progress, errors, inbox, completed >>

NextVerify ==
    \/ verify_files_begin
    \/ verify_files_step
    \/ verify_files_end
    \/ verify_again

SpecVerify == InitVerify /\ [][NextVerify]_vars

\* ------------------------------------------------- the scan, sector by sector
\* The same scan over long media.  Only what steers the loops is kept of a
\* block: whether it is empty (end of medium), whether the signature search
\* hits in it, whether the end-marker search hits in it.  Every sequence of
\* such outcomes is the scan of some medium; start signatures are taken to
\* lie in the blocks SigBlocks only.  Output files are not written and not
\* counted, and of the percentages emitted only the latest is kept.
SigBlocks == {0, 1, 500, 999, 1000, 1500}

\* the sector counts the target may report (None: getsize raises)
DeclaredSectors == {700, 1000}

\* a block that is not empty
SomeBlock == <<0>>

InitSectors ==
    /\ stream = <<>>
    /\ faults = {}
    /\ target = "ok"
    /\ size_known \in BOOLEAN
    /\ scan_type = "raw"
    /\ pc = "outer_test"
    /\ is_running = TRUE
    /\ start_button = FALSE
    /\ stop_button = TRUE
    /\ inbox = <<>>
    /\ kill_pending = FALSE
    /\ later_thread = "none"
    /\ verify_pass = 1
    /\ first_pass = <<>>
    /\ reads_at_stop = -1
    /\ runs = 1
    /\ pos = 0
    /\ reads = 1
    /\ byte \in {<<>>, SomeBlock}
    /\ drec = FALSE
    /\ offs = 0
    /\ processed_sectors = 0
    /\ file_sectors = 0
    /\ estimated_file_size = SeedFileSize
    /\ total_sectors \in IF size_known
                         THEN {TotalSectors(TRUE, d * size) : d \in DeclaredSectors}
                         ELSE {TotalSectors(FALSE, 0)}
    /\ prev_progress = 0
    /\ file_type = "none"
    /\ file_path = NoPath
    /\ rcvd = 0
    /\ recovered_files = <<>>
    /\ fileD_open = TRUE
    /\ fileN_open = FALSE
    /\ disk = << >>
    /\ all_files = <<>>
    /\ vidx = 0
    /\ corrupted_count = 0
    /\ progress = <<0>>
    /\ errors = <<>>
    /\ completed = <<>>

\* the block a read returns: empty at the end of the medium, which comes
\* after MaxSectors blocks at the latest
BlocksReadable == IF processed_sectors + 1 >= MaxSectors
                  THEN {<<>>} ELSE {<<>>, SomeBlock}

\* The signature search of the block, by its outcome.
sectors_outer_body ==
    /\ pc = "outer_body"
    /\ \E hit \in (IF offs \in SigBlocks THEN {"jpg", "png", "none"} ELSE {"none"}) :
        IF hit = "none"
        THEN /\ pc' = "next_read"
             /\ UNCHANGED << drec, file_type, estimated_file_size, file_sectors,
                             fileN_open >>
        ELSE /\ drec' = TRUE
             /\ file_type' = hit
             /\ estimated_file_size' = SeedFileSize
             /\ file_sectors' = 0
             /\ fileN_open' = TRUE
             /\ pc' = "inner_test"
    /\ UNCHANGED << inputVars, windowVars, harnessVars, historyVars,
                    verifyVars, is_running, pos, reads, byte, offs,
                    processed_sectors, total_sectors, prev_progress, file_path, rcvd,
                    recovered_files, fileD_open, disk, all_files, progress, errors, inbox,
                    completed >>

\* One pass of the file loop, the end-marker search by its outcome.
sectors_inner_body ==
    /\ pc = "inner_body"
    /\ \E blk \in BlocksReadable, found \in BOOLEAN :
        LET est == AdjustedEstimate(file_sectors + 1, estimated_file_size)
            cur == current_progress(prev_progress, processed_sectors + 1, total_sectors)
        IN  /\ blk = <<>> => ~found
            /\ byte' = blk
            /\ offs' = offs + 1
            /\ processed_sectors' = processed_sectors + 1
            /\ file_sectors' = file_sectors + 1
            /\ estimated_file_size' = est
            /\ prev_progress' = cur
            /\ progress' = IF cur > prev_progress THEN <<cur>> ELSE progress
            /\ drec' = (blk # <<>> /\ ~found)
            /\ pc' = IF blk = <<>> THEN "close" ELSE "inner_test"
    /\ UNCHANGED << inputVars, windowVars, harnessVars, historyVars,
                    verifyVars, is_running, pos, reads, total_sectors,
                    file_type, file_path, rcvd, recovered_files, fileD_open,
                    fileN_open, disk, all_files, errors, inbox, completed >>

\* After the file loop.  Its counters are dead until the next file sets them
\* anew; they are put back to their starting values here.
sectors_close ==
    /\ pc = "close"
    /\ fileN_open' = FALSE
    /\ file_sectors' = 0
    /\ estimated_file_size' = SeedFileSize
    /\ pc' = "next_read"
    /\ UNCHANGED << inputVars, windowVars, harnessVars, historyVars,
                    verifyVars, is_running, pos, reads, byte, drec, offs,
                    processed_sectors, total_sectors, prev_progress, file_type,
                    file_path, rcvd, recovered_files, fileD_open, disk, all_files,
                    progress, errors, inbox, completed >>

\* The read that ends a pass of the scan loop, and the periodic progress.
sectors_next_read ==
    /\ pc = "next_read"
    /\ \E blk \in BlocksReadable :
        LET p == processed_sectors + 1
            cur == periodic_progress(p, total_sectors)
            emit == p % ProgressEvery = 0 /\ cur > prev_progress
        IN  /\ byte' = blk
            /\ offs' = offs + 1
            /\ processed_sectors' = p
            /\ prev_progress' = IF emit THEN cur ELSE prev_progress
            /\ progress' = IF emit THEN <<cur>> ELSE progress
            /\ pc' = "outer_test"
    /\ UNCHANGED << inputVars, windowVars, harnessVars, historyVars,
                    verifyVars, is_running, pos, reads, drec, file_sectors,
                    estimated_file_size, total_sectors, file_type, file_path, rcvd,
                    recovered_files, fileD_open, fileN_open, disk, all_files, errors, inbox,
                    completed >>

\* After the scan loop: 98 is emitted.
sectors_end ==
    /\ pc = "scan_end"
    /\ fileD_open' = FALSE
    /\ progress' = <<ScanCompletePercent>>
    /\ pc' = "verify"
    /\ UNCHANGED << inputVars, windowVars, harnessVars, historyVars,
                    verifyVars, is_running, pos, reads, byte, drec, offs,
                    processed_sectors, file_sectors, estimated_file_size,
                    total_sectors, prev_progress, file_type, file_path, rcvd,
                    recovered_files, fileN_open, disk, all_files, errors, inbox, completed >>

NextSectors ==
    \/ raw_recovery_outer_test
    \/ sectors_outer_body
    \/ raw_recovery_inner_test
    \/ sectors_inner_body
    \/ sectors_close
    \/ sectors_next_read
    \/ sectors_end

SpecSectors == InitSectors /\ [][NextSectors]_vars

\* ================================================================ claims
\* What a medium holds, read off its bytes.
OccursAt(s, sig, i) == i + Len(sig) <= Len(s) /\ SubSeq(s, i + 1, i + Len(sig)) = sig
Occurrences(s, sig) == {i \in 0..(Len(s) - 1) : OccursAt(s, sig, i)}
JpgStarts(s) == UNION {Occurrences(s, jpg_signatures[k]) : k \in 1..Len(jpg_signatures)}
PngStarts(s) == Occurrences(s, png_signature)
TheOne(S) == CHOOSE x \in S : TRUE
BlockOf(i) == i \div size

\* a run of the raw scan in which the environment injects nothing
CleanRawRun == scan_type = "raw" /\ target = "ok" /\ faults = {}

\* raw_recovery has returned; all_files is its result
Returned == pc = "verify"

\* the JPEG end markers behind the start signature at offset i
JpgEndsBehind(s, i) == {j \in Occurrences(s, jpg_end_signature) : j >= i + 4}

\* C1: a medium with exactly one JPEG start signature, followed later by the
\* end marker FF D9, yields exactly one record: type jpg, status Recovered,
\* size from the first byte of the signature through the last byte of the
\* first end marker behind it.
C1_OneJpegRecord ==
    ( /\ Returned
      /\ CleanRawRun
      /\ Cardinality(JpgStarts(stream)) = 1
      /\ PngStarts(stream) = {}
      /\ JpgEndsBehind(stream, TheOne(JpgStarts(stream))) # {} )
    => LET start == TheOne(JpgStarts(stream))
           last == SetMin(JpgEndsBehind(stream, start)) + Len(jpg_end_signature)
       IN  /\ Len(all_files) = 1
           /\ all_files[1].type = "jpg"
           /\ all_files[1].status = "Recovered"
           /\ all_files[1].size = last - start

\* the start signatures of the medium that lie across a block boundary
Straddling(s) ==
    {i \in JpgStarts(s) : BlockOf(i) # BlockOf(i + 3)}
    \cup {i \in PngStarts(s) : BlockOf(i) # BlockOf(i + Len(png_signature) - 1)}

\* C2: a start signature split between the end of one block and the
\* beginning of the next is detected: a record is emitted for a file that
\* starts at the signature's first byte.
C2_StraddlingStartDetected ==
    ( /\ Returned
      /\ CleanRawRun
      /\ Cardinality(JpgStarts(stream) \cup PngStarts(stream)) = 1
      /\ Straddling(stream) # {} )
    => /\ Len(all_files) >= 1
       /\ all_files[1].path \in DOMAIN disk
       /\ LET i == TheOne(Straddling(stream))
              content == disk[all_files[1].path]
          IN  content = SubSeq(stream, i + 1, i + Len(content))

\* the two images a medium is the concatenation of, if it is one
PairsOf(s) ==
    { pair \in UNION { { <<JpgImage(2, b), PngImage(d)>>, <<PngImage(b), JpgImage(2, d)>>,
                         <<JpgImage(2, d), PngImage(b)>>, <<PngImage(d), JpgImage(2, b)>> }
                       : b \in 0..MaxBody, d \in 0..MaxBody2 }
      : s = pair[1] \o pair[2] }

\* C3: the concatenation of a complete JPEG and a complete PNG, in either
\* order, yields exactly two records, one jpg and one png, each holding
\* exactly the bytes of its image.
C3_ConcatenationYieldsBoth ==
    ( Returned /\ CleanRawRun /\ PairsOf(stream) # {} )
    => \A pair \in PairsOf(stream) :
        /\ Len(all_files) = 2
        /\ {all_files[1].type, all_files[2].type} = {"jpg", "png"}
        /\ \A i \in 1..2 : /\ all_files[i].path \in DOMAIN disk
                           /\ disk[all_files[i].path] = pair[i]

\* verification is over (the run is at report generation or behind it)
Verified == pc \in {"report", "finish", "done"}

\* C4: a medium with a PNG start signature and no PNG end marker yields
\* exactly one record, and verification gives it status Corrupted (the cut-off
\* file does not decode), or Missing when the file was deleted before.
C4_TruncatedPngOneRecord ==
    ( /\ scan_type = "raw" /\ target = "ok" /\ faults \subseteq {"delete"}
      /\ Cardinality(PngStarts(stream)) = 1
      /\ JpgStarts(stream) = {}
      /\ Occurrences(stream, png_end_signature) = {} )
    => /\ Returned \/ Verified => Len(all_files) = 1
       /\ Verified => all_files[1].status \in {"Corrupted", "Missing"}
       /\ Verified /\ DOMAIN disk = {} => all_files[1].status = "Missing"

Last(s) == s[Len(s)]

\* the worker is inside the scan loop of raw_recovery
InScanLoop ==
    pc \in {"outer_test", "outer_body", "inner_test", "inner_body", "close", "next_read"}

\* C5: within one raw scan the percentages emitted never decrease, and every
\* one emitted inside the scan loop is at most 95, whatever the length of the
\* medium and the sector count the target reports.
C5_ProgressMonotoneCapped ==
    [][ progress' # progress =>
          /\ progress # <<>> => Last(progress') >= Last(progress)
          /\ InScanLoop => Last(progress') <= ProgressCap ]_vars

\* the cap is reached inside a file, on a medium longer than the estimate
C5_Witness ==
    /\ pc = "inner_test"
    /\ drec
    /\ processed_sectors > total_sectors
    /\ progress = <<ProgressCap>>
    /\ prev_progress = ProgressCap

\* C6: 100 is emitted only as the last percentage of a run, after the scan
\* has ended (both files closed), every record has been verified and the
\* report has been generated; never while carving or verifying.
C6_HundredOnlyAtEnd ==
    \A i \in DOMAIN progress :
        progress[i] = FinalPercent =>
            /\ i = Len(progress)
            /\ pc = "done"
            /\ ~fileD_open /\ ~fileN_open
            /\ (scan_type = "raw" /\ "mkdir" \notin faults) => vidx = Len(all_files) + 1

C6_Witness ==
    /\ pc = "done"
    /\ Len(all_files) = 2
    /\ Len(progress) > 3
    /\ Last(progress) = FinalPercent

Statuses == {"Recovered", "Copied", "Missing", "OK", "Corrupted", "Corrupted (not moved)"}

\* C7: every candidate for which an output file was opened is in the list the
\* run ends with, with a status, also after a read error, a write error or
\* a cancellation.
C7_EveryCandidateReported ==
    (pc = "done" /\ scan_type = "raw" /\ "delete" \notin faults) =>
        \A path \in DOMAIN disk :
            \E i \in DOMAIN all_files : /\ all_files[i].path = path
                                        /\ all_files[i].status \in Statuses

\* C8: when a block read fails, raw_recovery returns the records it had
\* accumulated before the failure.
C8_ReadFailureKeepsRecords ==
    (Returned /\ faults = {"read"} /\ errors # <<>>) => all_files = recovered_files

\* C9: a failed write of a carved file does not abort the scan: every file
\* opened has its record in the result and the scan has read the medium to
\* its end.
C9_WriteFailureNotFatal ==
    (Returned /\ scan_type = "raw" /\ target = "ok" /\ faults = {"write"}
              /\ DOMAIN disk # {}) =>
        /\ Len(all_files) = Cardinality(DOMAIN disk)
        /\ pos = Len(stream)
        /\ byte = <<>>

\* C10: when the target cannot be opened, raw_recovery reads no block, creates
\* no file, emits one error and returns the empty list, at once (98 is not
\* emitted).
C10_OpenFailureImmediate ==
    (target # "ok" /\ pc \notin {"idle", "start", "raw_open"}) =>
        /\ reads = 0
        /\ DOMAIN disk = {}
        /\ recovered_files = <<>>
        /\ errors = <<"raw_recovery">>
        /\ all_files = <<>>
        /\ \A i \in DOMAIN progress : progress[i] # ScanCompletePercent

C10_Witness == target = "denied" /\ Returned /\ errors # <<>> /\ Len(stream) > size

\* C11: an error event ends the run: it is the only error event, and the run
\* emits neither percent 100 nor recovery_complete once it has been emitted.
C11_ErrorIsTerminal ==
    errors # <<>> =>
        /\ Len(errors) = 1
        /\ \A i \in DOMAIN progress : progress[i] # FinalPercent
        /\ completed = <<>>

\* C12: cancellation is cooperative: the worker leaves the scan loop only
\* from the loop test, where it reads the flag (or by an exception of its
\* own); it is never stopped between two loop tests, inside a block.
C12_ScanEndsAtLoopTest ==
    [][ (InScanLoop /\ ~InScanLoop') => (pc = "outer_test" \/ errors' # errors) ]_vars

\* the last carved file was still in progress when it was closed
LastFileUnfinished ==
    /\ recovered_files # <<>>
    /\ LET rec == Last(recovered_files)
       IN  /\ rec.path \in DOMAIN disk
           /\ Find(disk[rec.path], end_signature(rec.type)) < 0

\* C13: when stop() sets the flag during a scan, raw_recovery closes the file
\* in progress and returns every record it has accumulated, the record of
\* that file included: every file it created is in the list it returns.
C13_CancelledScanReturnsAll ==
    (Returned /\ scan_type = "raw" /\ faults = {"stop"} /\ ~is_running) =>
        /\ all_files = recovered_files
        /\ ~fileN_open
        /\ ~fileD_open
        /\ Len(all_files) = Cardinality(DOMAIN disk)
        /\ \A path \in DOMAIN disk : \E i \in DOMAIN all_files : all_files[i].path = path

C13_Witness ==
    /\ Returned /\ scan_type = "raw" /\ faults = {"stop"} /\ ~is_running
    /\ byte # <<>>
    /\ LastFileUnfinished
    /\ Len(all_files) = 2

\* C14: at most one scan is active at any time: a RecoveryThread is never
\* started while the thread started before it is still inside run_recovery.
C14_OneScanAtATime ==
    [][ (later_thread = "none" /\ later_thread' = "running") => ~ThreadExecuting ]_vars

\* C15: within one scan every record has its own output path: the counter in
\* the file name starts at 0 and goes up by one with every carved file, so no
\* carved file is written over another.
C15_DistinctOutputPaths ==
    scan_type = "raw" =>
        /\ rcvd = Len(recovered_files)
        /\ \A i \in DOMAIN recovered_files :
            /\ recovered_files[i].path.dir = "out"
            /\ recovered_files[i].path.n = i - 1
        /\ \A i, j \in DOMAIN recovered_files :
            i # j => recovered_files[i].path # recovered_files[j].path
        /\ fileN_open =>
            /\ file_path.n = rcvd
            /\ \A i \in DOMAIN recovered_files : recovered_files[i].path # file_path

C15_Witness ==
    /\ Returned
    /\ Len(recovered_files) = 2
    /\ recovered_files[1].type = recovered_files[2].type
    /\ recovered_files[1].path.n = 0
    /\ recovered_files[2].path.n = 1

C17_MoveOutcomeRecorded ==
    [][ ( /\ pc = "verify_loop"
          /\ vidx <= Len(all_files)
          /\ vidx' = vidx + 1
          /\ all_files[vidx].path \in DOMAIN disk
          /\ ~verify_image_integrity(disk[all_files[vidx].path], all_files[vidx].type) )
        => LET old == all_files[vidx]
               new == all_files'[vidx]
           IN  IF disk' = disk
               THEN /\ new.status = "Corrupted (not moved)"
                    /\ new.path = old.path
               ELSE /\ new.status = "Corrupted"
                    /\ new.path.dir = "corrupted"
                    /\ new.path.q = <<corrupted_count + 1>> \o old.path.q
                    /\ new.path.n = old.path.n
                    /\ new.path \in DOMAIN disk'
                    /\ old.path \notin DOMAIN disk'
                    /\ disk'[new.path] = disk[old.path] ]_vars

C17_Witness ==
    /\ pc = "report"
    /\ verify_pass = 1
    /\ \E i, j \in DOMAIN all_files :
        /\ all_files[i].status = "Corrupted (not moved)"
        /\ all_files[i].path \in DOMAIN disk
        /\ all_files[i].path.dir = "out"
        /\ all_files[j].status = "Corrupted"
        /\ all_files[j].path \in DOMAIN disk
        /\ all_files[j].path.dir = "corrupted"

\* the quarantine directory could not be created: verify_files never entered
\* its loop
QuarantineDirFailed == scan_type = "raw" /\ Verified /\ vidx = 0

\* C18: a record that fails verification never keeps the records behind it
\* from being verified; only a quarantine directory that cannot be created
\* ends verification early, and then the run reports an error instead of
\* completing normally with records that were not verified.
C18_MkdirFailureSurfaced ==
    /\ (scan_type = "raw" /\ Verified /\ ~QuarantineDirFailed) =>
            \A i \in DOMAIN all_files :
                all_files[i].status \in Statuses \ {"Recovered", "Copied"}
    /\ (pc = "done" /\ QuarantineDirFailed /\ all_files # <<>> /\ is_running) =>
            /\ errors # <<>>
            /\ completed = <<>>

\* C19: every record that reaches report generation has a status, one of
\* Recovered, Copied, Missing, OK, Corrupted, Corrupted (not moved), in
\* either scan mode and on every path through the run.
C19_StatusAtReport ==
    pc = "report" =>
        \A i \in DOMAIN all_files :
            /\ all_files[i].status # ""
            /\ all_files[i].status \in Statuses

C19_Witness ==
    /\ pc = "report"
    /\ scan_type = "existing"
    /\ Len(all_files) >= 2
    /\ \A i \in DOMAIN all_files : all_files[i].status = "Copied"

\* what is left of the block at hand behind the end marker that closed the
\* last file
TailBehindEnd ==
    IF rcvd > 0 /\ file_type # "none" /\ Find(byte, end_signature(file_type)) >= 0
    THEN SliceFrom(byte, Min(EndKeep(file_type, Find(byte, end_signature(file_type))),
                             Len(byte)))
    ELSE <<>>

\* C20: after a file was closed at an end marker inside a block, the rest of
\* that block is scanned for a start signature: when the scan goes on to read
\* the next block, no start signature is left behind the end marker.
C20_TailRescanned ==
    (pc = "next_read" /\ CleanRawRun /\ ~drec /\ rcvd > 0) =>
        SearchStart(TailBehindEnd).found_pos < 0

\* the signatures in the order they are tried: the JPEG variants, then PNG
Catalog == jpg_signatures \o <<png_signature>>

\* C21: per block the start signatures are tried in catalog order and the
\* first one in that order that occurs anywhere in the block wins: it alone
\* gives the file type and the start offset (its first occurrence), also when
\* a signature later in the catalog occurs at a lower offset of the block.
C21_CatalogOrderWins ==
    [][ (pc = "outer_body" /\ pc' # pc /\ CleanRawRun) =>
          LET hits == {k \in DOMAIN Catalog : Find(byte, Catalog[k]) >= 0}
          IN  IF hits = {}
              THEN pc' = "next_read" /\ disk' = disk /\ ~drec'
              ELSE LET winner == SetMin(hits)
                   IN  /\ drec'
                       /\ file_type' = (IF winner = Len(Catalog) THEN "png" ELSE "jpg")
                       /\ file_path' \in DOMAIN disk'
                       /\ disk'[file_path'] =
                            SubSeq(byte, Find(byte, Catalog[winner]) + 1, Len(byte))
      ]_vars

C21_Witness ==
    /\ pc = "inner_test"
    /\ drec
    /\ reads = 1
    /\ file_type = "jpg"
    /\ Find(byte, png_signature) = 0
    /\ disk[file_path] = SubSeq(byte, Len(png_signature) + 1, Len(byte))

\* C22: when the end signature of the file in progress is found at offset k
\* of a block, the bytes [0, k + L) of the block, at most the whole block, are
\* written to the file, L being 2 for jpg and 12 for png, and nothing is
\* written to that file afterwards.
C22_WriteUpToEndMarker ==
    [][ /\ ( /\ pc = "inner_body" /\ pc' = "inner_test" /\ CleanRawRun
             /\ Find(byte', end_signature(file_type)) >= 0 )
           => LET k == Find(byte', end_signature(file_type))
                  L == IF file_type = "jpg" THEN 2 ELSE 12
              IN  /\ disk'[file_path] =
                        disk[file_path] \o SubSeq(byte', 1, Min(k + L, Len(byte')))
                  /\ ~drec'
        /\ ( /\ InScanLoop /\ CleanRawRun /\ ~drec
             /\ file_path \in DOMAIN disk /\ file_path' = file_path )
           => disk'[file_path] = disk[file_path]
      ]_vars

C22_Witness ==
    /\ pc = "inner_test"
    /\ ~drec
    /\ fileN_open
    /\ file_type = "png"
    /\ Find(byte, png_end_signature) >= 0
    /\ Len(byte) > Find(byte, png_end_signature) + 12
    /\ Len(disk[file_path]) > size

\* C23: an end signature of the file in progress that is split between the
\* end of one block and the beginning of the next is detected: the file is
\* closed at that end marker and does not go on to a later one or to the end
\* of the medium.
C23_StraddlingEndDetected ==
    ( /\ Returned
      /\ CleanRawRun
      /\ Cardinality(JpgStarts(stream)) = 1
      /\ PngStarts(stream) = {}
      /\ Straddling(stream) = {}
      /\ JpgEndsBehind(stream, TheOne(JpgStarts(stream))) # {}
      /\ LET e == SetMin(JpgEndsBehind(stream, TheOne(JpgStarts(stream))))
         IN  BlockOf(e) # BlockOf(e + 1) )
    => LET start == TheOne(JpgStarts(stream))
           e == SetMin(JpgEndsBehind(stream, start))
       IN  /\ Len(all_files) = 1
           /\ all_files[1].size = e + Len(jpg_end_signature) - start

\* C24: the percentage is recomputed after every block read, with a file in
\* progress and without: whenever it is greater than the one emitted last, a
\* progress event with it is emitted at that block.
C24_ProgressAfterEveryRead ==
    [][ (CleanRawRun /\ processed_sectors' = processed_sectors + 1) =>
          LET cur == IF pc = "inner_body"
                     THEN current_progress(prev_progress, processed_sectors', total_sectors)
                     ELSE periodic_progress(processed_sectors', total_sectors)
          IN  cur > prev_progress =>
                /\ progress' = Append(progress, cur)
                /\ prev_progress' = cur
      ]_vars

\* C25: the size estimate of a file starts at the seed of 1000 blocks, and
\* each time the blocks consumed for the file exceed half of the estimate it
\* is replaced by twice its value: 1000, 2000, 4000, ...
C25_EstimateDoubles ==
    [][ /\ (~drec /\ drec') => estimated_file_size' = SeedFileSize
        /\ (pc = "inner_body" /\ file_sectors' = file_sectors + 1) =>
              estimated_file_size' = IF 2 * file_sectors' > estimated_file_size
                                     THEN 2 * estimated_file_size
                                     ELSE estimated_file_size
      ]_vars

\* C30: the per-file percentage of the status message never exceeds 50,
\* whatever the number of blocks the file in progress has consumed.
C30_FilePercentAtMostHalf ==
    file_progress(file_sectors, estimated_file_size) <= 50

C30_Witness ==
    /\ drec
    /\ file_sectors > SeedFileSize
    /\ estimated_file_size = 2 * file_sectors
    /\ file_progress(file_sectors, estimated_file_size) = 50

\* the raw scan of the run has stopped, however it did
ScanStopped ==
    scan_type = "raw" /\ pc \in {"verify", "verify_loop", "report", "finish", "done",
                                 "terminated"}

\* C26: however a scan stops while a file is in progress (flag, Stop button,
\* end of medium, error), the output file and the target are closed before
\* the scan counts as ended: no state has a stopped scan and an open handle.
C26_NoHandleAfterScan ==
    (ScanStopped /\ file_path # NoPath) => ~fileN_open /\ ~fileD_open

\* C27: cancellation is honoured at block granularity: once the flag has gone
\* down, raw_recovery reads at most two further blocks, and after the second
\* nothing is left for it but to leave the scan loop, however much of the
\* medium remains.
C27_AtMostTwoReadsAfterStop ==
    (scan_type = "raw" /\ reads_at_stop >= 0) =>
        /\ reads - reads_at_stop <= 2
        /\ (reads - reads_at_stop = 2 /\ InScanLoop) => pc = "outer_test"

C27_Witness ==
    /\ Returned
    /\ runs = 1
    /\ reads_at_stop >= 1
    /\ reads - reads_at_stop = 2
    /\ pos + size < Len(stream)

\* C28: a cancellation affects only the scan during which it was requested: a
\* run started on the same worker after an earlier stop(), and not cancelled
\* itself, scans the medium to its end and carves what a first run carves.
C28_CancellationDoesNotOutlive ==
    ( /\ runs = 2 /\ Returned /\ scan_type = "raw"
      /\ "stop" \notin faults /\ stop_button /\ errors = <<>> )
    => /\ byte = <<>>
       /\ pos = Len(stream)
       /\ SearchStart(ReadBlock(0)).found_pos >= 0 => recovered_files # <<>>

\* C29: in a run in which the flag went down before the run finished, no
\* recovery_complete is emitted, while verification, the report and the
\* percent-100 event still take place.
C29_NoCompletionAfterStop ==
    [][ (pc = "finish" /\ pc' = "done" /\ ~is_running) =>
          /\ completed' = completed
          /\ completed = <<>>
          /\ progress' = Append(progress, FinalPercent)
          /\ (scan_type = "raw" /\ "mkdir" \notin faults) => vidx = Len(all_files) + 1
      ]_vars

C29_Witness ==
    /\ pc = "done"
    /\ runs = 1
    /\ ~is_running
    /\ reads_at_stop >= 1
    /\ completed = <<>>
    /\ Last(progress) = FinalPercent
    /\ all_files # <<>>
    /\ all_files[1].status = "OK"

====
